---- MODULE Spec2Model ----
(***************************************************************************)
(* A model of repo_mentor's retrieval-augmented lookup engine: the         *)
(* ingestion job orchestrator (services/repository.py), the chunk builder  *)
(* (services/rag/chunks.py), the index builder (services/rag/index.py),    *)
(* the retriever (services/rag/retriever.py) and the chat route's input    *)
(* validation (api/routes_chat.py).                                        *)
(*                                                                         *)
(* Python strings that the code inspects character by character (chunk     *)
(* ids, queries, timestamps, repository urls) are sequences of one         *)
(* character strings; opaque texts (statuses, error texts, summaries) are  *)
(* TLA+ strings.                                                           *)
(***************************************************************************)
EXTENDS Integers, Sequences, FiniteSets, TLC

----------------------------------------------------------------------------
(* Characters and Python string operations                                 *)

\* The characters the model uses, in code point order.
Alphabet ==
    << " ", "'", "+", "-", ".", "/",
       "0", "1", "2", "3", "4", "5", "6", "7", "8", "9", ":", "?",
       "A", "B", "L", "T", "_",
       "a", "b", "c", "d", "e", "f", "g", "h", "i", "j", "k", "l", "m",
       "n", "o", "p", "q", "r", "s", "t", "u", "v", "w", "x", "y", "z" >>

Ord(c) == CHOOSE i \in 1..Len(Alphabet) : Alphabet[i] = c

Rep(c, n) == [i \in 1..n |-> c]

\* Python's s1 < s2 on strings: lexicographic by code point.
StrLess(s, t) ==
    LET n == IF Len(s) < Len(t) THEN Len(s) ELSE Len(t)
        diff == {i \in 1..n : s[i] # t[i]}
        first == CHOOSE i \in diff : \A k \in diff : i <= k
    IN  IF diff = {} THEN Len(s) < Len(t) ELSE Ord(s[first]) < Ord(t[first])

StartsWithAt(s, i, p) ==
    /\ i + Len(p) - 1 <= Len(s)
    /\ \A j \in 1..Len(p) : s[i + j - 1] = p[j]

\* Python's  p in s
Contains(s, p) == \E i \in 1..(Len(s) - Len(p) + 1) : StartsWithAt(s, i, p)

\* Python's  s.endswith(p)
EndsWith(s, p) == Len(p) <= Len(s) /\ StartsWithAt(s, Len(s) - Len(p) + 1, p)

\* Python's  s.lower()
LowerChar(c) ==
    CASE c = "A" -> "a" [] c = "B" -> "b" [] c = "L" -> "l" [] c = "T" -> "t"
      [] OTHER -> c

Lower(s) == [i \in 1..Len(s) |-> LowerChar(s[i])]

\* Python's  s.strip() == ""  (only the blank is whitespace in the alphabet)
IsBlank(s) == \A i \in 1..Len(s) : s[i] = " "

----------------------------------------------------------------------------
(* services/repository.py: repository ids and timestamps                   *)

RECURSIVE RStripSlash(_)
RStripSlash(s) ==
    IF s # <<>> /\ s[Len(s)] = "/" THEN RStripSlash(SubSeq(s, 1, Len(s) - 1)) ELSE s

\* Index of the last "/" of s, 0 when there is none.
LastSlash(s) ==
    IF \E i \in 1..Len(s) : s[i] = "/"
    THEN CHOOSE i \in 1..Len(s) : s[i] = "/" /\ \A j \in (i + 1)..Len(s) : s[j] # "/"
    ELSE 0

\* _build_repo_folder_name: "<owner>_<repo>" from the last two "/" separated parts.
_build_repo_folder_name(repo_url) ==
    LET stripped == RStripSlash(repo_url)
        nogit    == IF EndsWith(stripped, <<".", "g", "i", "t">>)
                    THEN SubSeq(stripped, 1, Len(stripped) - 4) ELSE stripped
        cleaned  == [i \in 1..Len(nogit) |-> IF nogit[i] = ":" THEN "/" ELSE nogit[i]]
        cut      == LastSlash(cleaned)
        repo     == SubSeq(cleaned, cut + 1, Len(cleaned))
        before   == SubSeq(cleaned, 1, cut - 1)
        owner    == SubSeq(before, LastSlash(before) + 1, Len(before))
    IN  IF cut = 0 THEN <<"r", "e", "p", "o">> ELSE owner \o <<"_">> \o repo

Digit(n) == Alphabet[Ord("0") + n]

\* n written with w decimal digits, zero padded.
RECURSIVE Digits(_, _)
Digits(n, w) == IF w = 0 THEN <<>> ELSE Digits(n \div 10, w - 1) \o <<Digit(n % 10)>>

\* datetime.isoformat() of an aware UTC datetime; the date and the hour and
\* minute are fixed, the fraction is left out when the microsecond is 0.
isoformat(dt) ==
    <<"2", "0", "2", "4", "-", "0", "1", "-", "0", "1", "T", "0", "0", ":", "0", "0", ":">>
    \o Digits(dt.sec, 2)
    \o (IF dt.usec = 0 THEN <<>> ELSE <<".">> \o Digits(dt.usec, 6))
    \o <<"+", "0", "0", ":", "0", "0">>

\* The instants the clock passes through: datetime.now() returns the
\* current one, and time does not go back.
Instants == << [sec |-> 9, usec |-> 0], [sec |-> 9, usec |-> 500000] >>

Micros(dt) == dt.sec * 1000000 + dt.usec

\* The urls submitted for ingestion: g://h/o/r.git/ and g://h/o/s
UrlR == <<"g", ":", "/", "/", "h", "/", "o", "/", "r", ".", "g", "i", "t", "/">>
UrlS == <<"g", ":", "/", "/", "h", "/", "o", "/", "s">>
Urls == {UrlR, UrlS}

RepoR == <<"o", "_", "r">>
RepoS == <<"o", "_", "s">>
RepoIds == {RepoR, RepoS}

----------------------------------------------------------------------------
(* JSON values: commit records as read_json returns them                   *)

JNull == [t |-> "null"]
JStr(s) == [t |-> "str", v |-> s]
JInt(n) == [t |-> "int", v |-> n]
JList(l) == [t |-> "list", v |-> l]
JDict(f) == [t |-> "dict", v |-> f]
\* A string the code never looks into (a status, an error text).
JText(s) == [t |-> "text", v |-> s]
EmptyDict == JDict(<<>>)

\* Python truthiness of a JSON value.
Truthy(j) ==
    CASE j.t = "null" -> FALSE
      [] j.t = "int" -> j.v # 0
      [] j.t = "dict" -> DOMAIN j.v # {}
      [] j.t = "text" -> j.v # ""
      [] OTHER -> j.v # <<>>

\* a or b
Or(a, b) == IF Truthy(a) THEN a ELSE b

\* d.get(k, default) and d.get(k)
GetD(d, k, default) == IF k \in DOMAIN d.v THEN d.v[k] ELSE default
Get(d, k) == GetD(d, k, JNull)

----------------------------------------------------------------------------
(* services/rag/chunks.py: the text extractor                              *)

Ext(s) == <<".">> \o s

CODE_EXTS ==
    { Ext(<<"p", "y">>),
      Ext(<<"j", "s">>), Ext(<<"t", "s">>), Ext(<<"j", "s", "x">>), Ext(<<"t", "s", "x">>),
      Ext(<<"h", "t", "m", "l">>), Ext(<<"h", "t", "m">>), Ext(<<"c", "s", "s">>),
      Ext(<<"s", "c", "s", "s">>),
      Ext(<<"j", "a", "v", "a">>), Ext(<<"k", "t">>), Ext(<<"k", "t", "s">>),
      Ext(<<"c">>), Ext(<<"h">>), Ext(<<"c", "p", "p">>), Ext(<<"c", "c">>),
      Ext(<<"h", "p", "p">>),
      Ext(<<"g", "o">>),
      Ext(<<"r", "s">>),
      Ext(<<"s", "q", "l">>),
      Ext(<<"s", "h">>), Ext(<<"b", "a", "s", "h">>), Ext(<<"z", "s", "h">>),
      Ext(<<"r", "b">>),
      Ext(<<"p", "h", "p">>),
      Ext(<<"c", "s">>),
      Ext(<<"s", "w", "i", "f", "t">>), Ext(<<"m">>), Ext(<<"m", "m">>),
      Ext(<<"i", "n", "i">>), Ext(<<"c", "f", "g">>) }

MAX_WORKERS == 10

\* Python's seq[:n]
Take(seq, n) == SubSeq(seq, 1, IF Len(seq) < n THEN Len(seq) ELSE n)

\* _file_path: new_path or old_path or filename or ""
_file_path(f) ==
    Or(Get(f, "new_path"), Or(Get(f, "old_path"), Or(Get(f, "filename"), JStr(<<>>)))).v

\* os.path.splitext(path)[1]: from the last dot of the last path component,
\* unless that component has no character other than dots before it.
splitext_ext(path) ==
    LET base == SubSeq(path, LastSlash(path) + 1, Len(path))
        dots == {i \in 1..Len(base) : base[i] = "."}
        last == CHOOSE i \in dots : \A j \in dots : j <= i
    IN  IF dots = {} \/ \A j \in 1..(last - 1) : base[j] = "."
        THEN <<>>
        ELSE SubSeq(base, last, Len(base))

_is_code_file(path) == splitext_ext(path) \in CODE_EXTS

noise_keywords ==
    << <<"f", "o", "r", "m", "a", "t">>, <<"f", "m", "t">>,
       <<"p", "r", "e", "t", "t", "i", "e", "r">>, <<"b", "l", "a", "c", "k">>,
       <<"l", "i", "n", "t">>, <<"t", "y", "p", "o">>, <<"d", "o", "c", "s">>,
       <<"d", "o", "c">>, <<"r", "e", "a", "d", "m", "e">>, <<"c", "h", "o", "r", "e">> >>

\* The files list of a commit: commit.get("files", []) or []
FilesOf(commit) == Or(GetD(commit, "files", JList(<<>>)), JList(<<>>)).v

\* int(x) raises TypeError on None.
IntRaises(j) == j.t = "null"

\* _is_noise_commit raises exactly when int() is given a null statistic.
_is_noise_commit_raises(commit) ==
    LET stats == Or(Get(commit, "stats"), EmptyDict)
    IN  \/ IntRaises(GetD(stats, "insertions", JInt(0)))
        \/ IntRaises(GetD(stats, "deletions", JInt(0)))

\* A classifier for which a keyword in the message is enough.
_is_noise_commit_keyword_only(commit) ==
    LET message == Lower(Or(Get(commit, "msg"), JStr(<<>>)).v)
        files == FilesOf(commit)
    IN  \/ \E k \in 1..Len(noise_keywords) : Contains(message, noise_keywords[k])
        \/ ~\E i \in 1..Len(files) : _is_code_file(_file_path(files[i]))

_is_noise_commit(commit) ==
    LET message == Lower(Or(Get(commit, "msg"), JStr(<<>>)).v)
        stats == Or(Get(commit, "stats"), EmptyDict)
        total_changes == GetD(stats, "insertions", JInt(0)).v
                         + GetD(stats, "deletions", JInt(0)).v
        files == FilesOf(commit)
        has_code_file == \E i \in 1..Len(files) : _is_code_file(_file_path(files[i]))
    IN  IF (\E k \in 1..Len(noise_keywords) : Contains(message, noise_keywords[k]))
           /\ total_changes <= 20
        THEN TRUE
        ELSE IF ~has_code_file THEN TRUE
        ELSE IF files = <<>> THEN TRUE
        ELSE FALSE

\* A text is a sequence of lines; each line records the template that
\* printed it and the values filled in, so that equal texts are equal values.
Lit(s) == [k |-> "lit", s |-> s]
FileLine(f) ==
    [k |-> "file",
     path |-> LET p == _file_path(f) IN IF p = <<>> THEN <<"u", "n", "k", "n", "o", "w", "n">> ELSE p,
     change_type |-> Or(Get(f, "change_type"), JStr(<<"M", "O", "D", "I", "F", "Y">>))]

_build_header(commit) ==
    LET date == GetD(commit, "committer_date", JStr(<<>>))
        h == GetD(commit, "hash", JStr(<<>>))
        msg == GetD(commit, "msg", JStr(<<>>))
        author == Or(Get(Or(Get(commit, "author"), EmptyDict), "name"), JStr(<<>>))
        branches == Or(Get(Or(Get(commit, "meta"), EmptyDict), "branches"), JList(<<>>))
    IN  << [k |-> "head", date |-> date, hash |-> h] >>
        \o (IF Truthy(msg) THEN << [k |-> "message", msg |-> msg] >> ELSE <<>>)
        \o (IF Truthy(author) \/ Truthy(branches)
            THEN << [k |-> "by", author |-> author, branches |-> branches] >>
            ELSE <<>>)

_build_noise_summary(commit) ==
    LET files == FilesOf(commit)
    IN  << Lit("Summary:"),
           Lit("- Updated configuration / documentation / non-code assets."),
           Lit(""), Lit("Files:") >>
        \o [i \in 1..Len(files) |-> FileLine(files[i])]

\* A fallback body that lists every file.
_build_fallback_body_all_files(commit) ==
    LET files == FilesOf(commit)
    IN  << Lit("Summary:"),
           Lit("- Commit details could not be fully summarized by the LLM."),
           Lit(""), Lit("Files:") >>
        \o [i \in 1..Len(files) |-> FileLine(files[i])]

_build_fallback_body(commit) ==
    LET files == FilesOf(commit)
        first == Take(files, 5)
    IN  << Lit("Summary:"),
           Lit("- Commit details could not be fully summarized by the LLM."),
           Lit(""), Lit("Files:") >>
        \o [i \in 1..Len(first) |-> FileLine(first[i])]
        \o (IF Len(files) > 5 THEN << [k |-> "more", n |-> Len(files) - 5] >> ELSE <<>>)

\* header + ("\n\n" + body if body else "")
JoinBody(header, body) == header \o (IF body # <<>> THEN <<Lit("")>> \o body ELSE <<>>)

\* What one summarise_commit call does: it raises, or returns "" or a summary.
SummRaise == "raise"
SummOutcomes == {SummRaise, "", "summary A"}
\* summarise_commit is not called for a commit that is noise.
NotCalled == "not called"

\* _generate_chunk_text given the outcome of its summarise_commit call (which
\* is made only for a commit that is not noise). Defined when
\* _is_noise_commit does not raise.
_generate_chunk_text(commit, llm) ==
    LET header == _build_header(commit)
    IN  IF _is_noise_commit(commit)
        THEN JoinBody(header, _build_noise_summary(commit))
        ELSE IF llm = SummRaise \/ llm = ""
        THEN JoinBody(header, _build_fallback_body(commit))
        ELSE JoinBody(header, << [k |-> "llm", summary |-> llm] >>)

----------------------------------------------------------------------------
(* The git history of the ingested repositories                            *)

\* The number of commits the history of g://h/o/r can grow to; the history
\* of g://h/o/s is empty.
MaxCommits == 3

\* Commit i of a history, as pydriller yields it (oldest first): the second
\* commit adds code, every other one fixes a typo in a document.
IsCodeCommit(i) == i = 2
HashOf(i) == Digits(i, 2) \o Rep("a", 38)
DateOf(i) == [day |-> i]

\* committer_date.strftime("%Y%m%d%H%M%S")
strftime(d) == <<"2", "0", "2", "4", "0", "1">> \o Digits(d.day, 2) \o Rep("0", 6)

\* commit_id = f"{date_str}_{commit.hash}"
CommitId(i) == strftime(DateOf(i)) \o <<"_">> \o HashOf(i)

MainPy == <<"m", "a", "i", "n", ".", "p", "y">>
AMd == <<"a", ".", "m", "d">>
MsgAddParser == <<"a", "d", "d", " ", "p", "a", "r", "s", "e", "r">>
MsgFixTypo == <<"c", "h", "o", "r", "e", ":", " ", "f", "i", "x", " ", "t", "y", "p", "o">>
Modify == JStr(<<"M", "O", "D", "I", "F", "Y">>)

\* The payload _build_commits writes for commit i.
Payload(i) ==
    JDict([ committer_date |-> JStr(strftime(DateOf(i))),
            hash |-> JStr(HashOf(i)),
            msg |-> JStr(IF IsCodeCommit(i) THEN MsgAddParser ELSE MsgFixTypo),
            author |-> JDict([name |-> JStr(<<"k">>), email |-> JStr(<<"k">>)]),
            meta |-> JDict([branches |-> JList(<<JStr(<<"m">>)>>)]),
            stats |-> IF IsCodeCommit(i)
                      THEN JDict([insertions |-> JInt(60), deletions |-> JInt(40)])
                      ELSE JDict([insertions |-> JInt(3), deletions |-> JInt(1)]),
            files |-> IF IsCodeCommit(i)
                      THEN JList(<< JDict([new_path |-> JStr(MainPy), change_type |-> Modify]) >>)
                      ELSE JList(<< JDict([filename |-> JStr(AMd)]) >>) ])

----------------------------------------------------------------------------
(* services/storage/s3.py: the object store                                *)

Absent == [present |-> FALSE]
File(v) == [present |-> TRUE, v |-> v]

\* list_commits(prefix): the stems of the documents stored under a prefix.
list_commits(files) == DOMAIN files

\* list_json_stems(prefix): the stems of the .json documents stored under a
\* prefix, as a set. The function is imported from storage/s3.py but is not
\* among its sources; it is modelled from the object store's boundary
\* ("prefix listing of stored document stems").
list_json_stems(files) == DOMAIN files

\* read_json(key): the stored document, None when the key is absent.
read_json(files, key) == IF key \in DOMAIN files THEN files[key] ELSE JNull

\* write_json(key, data)
write_json(files, key, data) ==
    [k \in DOMAIN files \cup {key} |-> IF k = key THEN data ELSE files[k]]

\* sorted(stems): ascending in Python's string order.
RECURSIVE sorted(_)
sorted(stems) ==
    IF stems = {} THEN <<>>
    ELSE LET least == CHOOSE x \in stems : \A y \in stems : y = x \/ StrLess(x, y)
         IN  <<least>> \o sorted(stems \ {least})

----------------------------------------------------------------------------
(* State                                                                   *)

\* The number of ingestion jobs started.
MaxJobs == 2
JobIds == 1..MaxJobs

VARIABLES
    jobFiles,     \* repos/<repo_id>/jobs/<job_id>.json: <<repo_id, job_id>> -> job record
    nextJob,      \* the number of job ids uuid4() has handed out
    thr,          \* the background thread of each job: where it is, and what it holds
    git,          \* the number of commits in the history of each repository
    commitFiles,  \* repos/<repo_id>/commits/<stem>.json: per repository, stem -> payload
    chunkFile,    \* repos/<repo_id>/rag/chunks.jsonl: per repository, the chunks written
    indexFile,    \* repos/<repo_id>/rag/index.faiss: per repository, the vectors written
    clock,        \* the index in Instants of the current time
    cache,        \* retriever._cache: per repository, the loaded (index, chunks) pair
    pool,         \* the thread pool of the build_rag_chunks call under way, if any
    latest,       \* the get_latest_repository_job call that has just returned, if any
    ret,          \* the retrieve_chunks call that has just returned, if any
    http,         \* the chat request that has just been answered, if any
    call          \* the call of a function of chunks.py or repository.py that has just ended, if any

jobVars == <<jobFiles, nextJob, thr, clock>>
storeVars == <<git, commitFiles, chunkFile, indexFile>>
vars == <<jobFiles, nextJob, thr, clock, git, commitFiles, chunkFile, indexFile, cache,
          pool, latest, ret, http, call>>

NoThread == [pc |-> "none", repo_url |-> <<>>, ran |-> <<>>, err |-> ""]
NoCall == [called |-> FALSE]
NoPool == [pc |-> "none", repo_id |-> <<>>, commit_stems |-> <<>>, futures |-> <<>>,
           awaited |-> 1, chunks |-> <<>>, overtaken |-> FALSE]

\* The state at start-up, nothing cached and no job started, over a history
\* of n commits of g://h/o/r and the documents stored for it.
StartUpState(n, commits, chunks, index) ==
    /\ jobFiles = <<>>
    /\ nextJob = 0
    /\ thr = [j \in JobIds |-> NoThread]
    /\ git = [r \in RepoIds |-> IF r = RepoR THEN n ELSE 0]
    /\ commitFiles = [r \in RepoIds |-> IF r = RepoR THEN commits ELSE <<>>]
    /\ chunkFile = [r \in RepoIds |-> IF r = RepoR THEN chunks ELSE Absent]
    /\ indexFile = [r \in RepoIds |-> IF r = RepoR THEN index ELSE Absent]
    /\ clock = 1
    /\ cache = [r \in RepoIds |-> Absent]
    /\ pool = NoPool
    /\ latest = NoCall
    /\ ret = NoCall
    /\ http = NoCall

\* No function is about to be called on its own.
StartUpOver(n, commits, chunks, index) ==
    StartUpState(n, commits, chunks, index) /\ call = NoCall

\* The state after start-up on an empty store.
StartUp(n) == StartUpOver(n, <<>>, Absent, Absent)

Init == StartUp(1)

\* No request handler returns in this step.
NoReturn == latest' = NoCall /\ ret' = NoCall /\ http' = NoCall /\ call' = NoCall

----------------------------------------------------------------------------
(* services/repository.py: the ingestion job orchestrator                  *)

JobKey(repo_id, job_id) == <<repo_id, job_id>>

\* The job records stored under repos/<repo_id>/jobs/, by stem.
Under(files, repo_id) ==
    [job_id \in {key[2] : key \in {k \in DOMAIN files : k[1] = repo_id}} |->
        files[JobKey(repo_id, job_id)]]

\* _create_job
_create_job(files, repo_id, job_id, job) == write_json(files, JobKey(repo_id, job_id), job)

\* job[k] = v on a dict
SetItem(d, k, v) == JDict([x \in DOMAIN d.v \cup {k} |-> IF x = k THEN v ELSE d.v[x]])

\* An update that writes a record of the status and the error alone.
_update_job_status_fresh(files, repo_id, job_id, status, error) ==
    LET withStatus == SetItem(EmptyDict, "status", JText(status))
    IN  write_json(files, JobKey(repo_id, job_id),
                   IF error # "" THEN SetItem(withStatus, "error", JText(error)) ELSE withStatus)

\* _update_job_status: read the record (an empty dict when there is none),
\* set status, add the extra fields, write it back.
_update_job_status(files, repo_id, job_id, status, error) ==
    LET key == JobKey(repo_id, job_id)
        job == Or(read_json(files, key), EmptyDict)
        withStatus == SetItem(job, "status", JText(status))
        updated == IF error # "" THEN SetItem(withStatus, "error", JText(error)) ELSE withStatus
    IN  write_json(files, key, updated)

\* start_ingest_repository_job: store the accepted job, start its thread,
\* return {"repo_id": repo_id}.
start_ingest_repository_job(repo_url, at) ==
    /\ nextJob < MaxJobs
    /\ at >= clock
    /\ clock' = at
    /\ LET repo_id == _build_repo_folder_name(repo_url)
           job_id == nextJob + 1
           job == JDict([ job_id |-> JInt(job_id),
                          created_at |-> JStr(isoformat(Instants[at])),
                          repo_url |-> JStr(repo_url),
                          status |-> JText("accepted") ])
       IN  /\ jobFiles' = _create_job(jobFiles, repo_id, job_id, job)
           /\ nextJob' = job_id
           /\ thr' = [thr EXCEPT ![job_id] = [pc |-> "start", repo_url |-> repo_url, ran |-> <<>>, err |-> ""]]
           /\ call' = [called |-> TRUE, fn |-> "start_ingest_repository_job",
                       repo_url |-> repo_url, job_id |-> job_id,
                       result |-> JDict([repo_id |-> JStr(repo_id)])]
    /\ latest' = NoCall /\ ret' = NoCall /\ http' = NoCall
    /\ UNCHANGED <<storeVars, cache, pool>>

RepoOf(j) == _build_repo_folder_name(thr[j].repo_url)

\* The thread moves on; a stage that was entered is noted in ran, and an
\* exception leaves ingest_repository for the handler with its text in err.
Goto(j, pc) == thr' = [thr EXCEPT ![j].pc = pc]
Return(j, stage, pc) == thr' = [thr EXCEPT ![j].pc = pc, ![j].ran = Append(@, stage)]
Raise(j, stage, e) ==
    thr' = [thr EXCEPT ![j].pc = "except", ![j].ran = Append(@, stage), ![j].err = e]

\* _run, line 58: the thread marks its job running.
run_begin(j) ==
    /\ thr[j].pc = "start"
    /\ jobFiles' = _update_job_status(jobFiles, RepoOf(j), j, "running", "")
    /\ Goto(j, "commits")
    /\ NoReturn
    /\ UNCHANGED <<nextJob, clock, storeVars, cache, pool>>

\* _build_commits: write the payload of every commit of the history that is
\* not stored yet, oldest first; the traversal or a write may raise part way.
run_build_commits(j) ==
    /\ thr[j].pc = "commits"
    /\ LET r == RepoOf(j)
           existing_commit_ids == list_json_stems(commitFiles[r])
       IN  \E upto \in 0..git[r], ok \in BOOLEAN :
             /\ ok => upto = git[r]
             /\ commitFiles' = [commitFiles EXCEPT ![r] =
                    [s \in existing_commit_ids \cup {CommitId(i) : i \in 1..upto} |->
                        IF s \in existing_commit_ids THEN commitFiles[r][s]
                        ELSE Payload(CHOOSE i \in 1..upto : CommitId(i) = s)]]
             /\ IF ok THEN Return(j, "commits", "chunks")
                      ELSE Raise(j, "commits", "commit extraction failed")
    /\ NoReturn
    /\ UNCHANGED <<jobFiles, nextJob, clock, git, chunkFile, indexFile, cache, pool>>

\* The chunks build_rag_chunks collects: one per stem in sorted order whose
\* record is readable, llm[stem] being the outcome of its summarise_commit call.
CollectChunks(commits, llm) ==
    LET commit_stems == sorted(list_commits(commits))
        RECURSIVE collect(_)
        collect(i) ==
            IF i > Len(commit_stems) THEN <<>>
            ELSE LET stem == commit_stems[i]
                     commit == read_json(commits, stem)
                 IN  (IF ~Truthy(commit) THEN <<>>
                      ELSE << [id |-> stem, text |-> _generate_chunk_text(commit, llm[stem])] >>)
                     \o collect(i + 1)
    IN  collect(1)

\* build_rag_chunks raises when the text of a readable record cannot be generated.
ChunksRaise(commits) ==
    \E stem \in DOMAIN commits : Truthy(commits[stem]) /\ _is_noise_commit_raises(commits[stem])

\* build_rag_chunks: the chunk file is written once, after every chunk is
\* collected; a storage failure raises before anything is written.
run_build_rag_chunks(j) ==
    /\ thr[j].pc = "chunks"
    /\ LET r == RepoOf(j)
       IN  \/ /\ ~ChunksRaise(commitFiles[r])
              /\ \E llm \in [DOMAIN commitFiles[r] -> SummOutcomes] :
                    chunkFile' = [chunkFile EXCEPT ![r] = File(CollectChunks(commitFiles[r], llm))]
              /\ Return(j, "chunks", "index")
           \/ /\ Raise(j, "chunks", "chunk build failed")
              /\ UNCHANGED chunkFile
    /\ NoReturn
    /\ UNCHANGED <<jobFiles, nextJob, clock, git, commitFiles, indexFile, cache, pool>>

\* embed_texts of one text: the vector the provider returns for it.
Embed(text) == [emb |-> text]

\* build_rag_index: nothing to do for a missing or empty chunk file; else one
\* vector per chunk, in file order; embed_texts may raise.
run_build_rag_index(j) ==
    /\ thr[j].pc = "index"
    /\ LET r == RepoOf(j)
           jsonl == chunkFile[r]
       IN  IF ~jsonl.present \/ jsonl.v = <<>>
           THEN /\ Return(j, "index", "finish")
                /\ UNCHANGED indexFile
           ELSE \/ /\ indexFile' = [indexFile EXCEPT ![r] =
                          File([i \in 1..Len(jsonl.v) |-> Embed(jsonl.v[i].text)])]
                   /\ Return(j, "index", "finish")
                \/ /\ Raise(j, "index", "embedding failed")
                   /\ UNCHANGED indexFile
    /\ NoReturn
    /\ UNCHANGED <<jobFiles, nextJob, clock, git, commitFiles, chunkFile, cache, pool>>

\* The job is marked completed inside the try block, and the handler runs
\* after it.
run_completed_then_handler(j) ==
    /\ thr[j].pc = "finish"
    /\ jobFiles' = _update_job_status(jobFiles, RepoOf(j), j, "completed", "")
    /\ Goto(j, "except")
    /\ NoReturn
    /\ UNCHANGED <<nextJob, clock, storeVars, cache, pool>>

\* _run, line 61: the pipeline returned.
run_completed(j) ==
    /\ thr[j].pc = "finish"
    /\ jobFiles' = _update_job_status(jobFiles, RepoOf(j), j, "completed", "")
    /\ Goto(j, "done")
    /\ NoReturn
    /\ UNCHANGED <<nextJob, clock, storeVars, cache, pool>>

\* The handler marks the job failed and drops the text of the exception.
run_failed_without_error(j) ==
    /\ thr[j].pc = "except"
    /\ jobFiles' = _update_job_status(jobFiles, RepoOf(j), j, "failed", "")
    /\ Goto(j, "done")
    /\ NoReturn
    /\ UNCHANGED <<nextJob, clock, storeVars, cache, pool>>

\* _run, line 63: the pipeline raised e; error=str(e).
run_failed(j) ==
    /\ thr[j].pc = "except"
    /\ jobFiles' = _update_job_status(jobFiles, RepoOf(j), j, "failed", thr[j].err)
    /\ Goto(j, "done")
    /\ NoReturn
    /\ UNCHANGED <<nextJob, clock, storeVars, cache, pool>>

\* _update_job_status raises at line 58, 61 or 63: read_json or write_json of
\* the job record failed, and the record is as it was. Line 61 is inside the
\* try block, so the handler runs with the text of the failure; lines 58 and
\* 63 are outside it, so the exception ends the thread.
run_update_raises(j) ==
    /\ thr[j].pc \in {"start", "finish", "except"}
    /\ thr' = [thr EXCEPT ![j].pc = IF thr[j].pc = "finish" THEN "except" ELSE "ended by exception",
                          ![j].err = IF thr[j].pc = "finish" THEN "job store failed" ELSE @]
    /\ NoReturn
    /\ UNCHANGED <<jobFiles, nextJob, clock, storeVars, cache, pool>>

\* The first record visited that has a created_at.
LatestOfFirstVisited(order, files, repo_id) ==
    LET dated == {i \in 1..Len(order) :
                    LET job == read_json(files, JobKey(repo_id, order[i]))
                    IN  Truthy(job) /\ Truthy(Get(job, "created_at"))}
    IN  IF dated = {} THEN [found |-> FALSE]
        ELSE [found |-> TRUE,
              job |-> read_json(files, JobKey(repo_id, order[CHOOSE i \in dated : \A k \in dated : i <= k]))]

\* get_latest_repository_job: the first record, in the order the stems are
\* visited, that no later visited record beats with a greater created_at.
LatestOf(order, files, repo_id) ==
    LET RECURSIVE scan(_, _)
        scan(i, best) ==
            IF i > Len(order) THEN best
            ELSE LET job == read_json(files, JobKey(repo_id, order[i]))
                     created_at == Get(job, "created_at")
                 IN  IF ~Truthy(job) THEN scan(i + 1, best)
                     ELSE IF ~Truthy(created_at) THEN scan(i + 1, best)
                     ELSE IF ~best.found
                             \/ StrLess(GetD(best.job, "created_at", JStr(<<>>)).v, created_at.v)
                     THEN scan(i + 1, [found |-> TRUE, job |-> job])
                     ELSE scan(i + 1, best)
    IN  scan(1, [found |-> FALSE])

Orders(S) == {o \in [1..Cardinality(S) -> S] : \A i, k \in DOMAIN o : i # k => o[i] # o[k]}

get_latest_repository_job(repo_id) ==
    /\ \E order \in Orders(list_json_stems(Under(jobFiles, repo_id))) :
          latest' = [called |-> TRUE, repo_id |-> repo_id,
                     result |-> LatestOf(order, jobFiles, repo_id)]
    /\ ret' = NoCall /\ http' = NoCall /\ call' = NoCall
    /\ UNCHANGED <<jobVars, storeVars, cache, pool>>

----------------------------------------------------------------------------
(* services/rag/retriever.py                                               *)

\* \d and [a-f0-9]
IsDigit(c) == c \in {"0", "1", "2", "3", "4", "5", "6", "7", "8", "9"}
IsHex(c) == IsDigit(c) \/ c \in {"a", "b", "c", "d", "e", "f"}

\* n hexadecimal characters start at position i of s.
HexRun(s, i, n) == i + n - 1 <= Len(s) /\ \A k \in 0..(n - 1) : IsHex(s[i + k])

\* \d{14}_[a-f0-9]{40} matches at position i of s.
ChunkIdAt(s, i) ==
    /\ i + 54 <= Len(s)
    /\ \A k \in 0..13 : IsDigit(s[i + k])
    /\ s[i + 14] = "_"
    /\ HexRun(s, i + 15, 40)

Least(S) == CHOOSE i \in S : \A k \in S : i <= k
Greatest(S) == CHOOSE i \in S : \A k \in S : k <= i

\* _extract_commit_id_from_query: the leftmost match of the chunk id pattern,
\* else of 40 hexadecimal characters, else the longest run of 7 to 39 at the
\* leftmost place where 7 start; the empty string stands for None.
_extract_commit_id_from_query(query) ==
    LET ids == {i \in 1..Len(query) : ChunkIdAt(query, i)}
        full == {i \in 1..Len(query) : HexRun(query, i, 40)}
        short == {i \in 1..Len(query) : HexRun(query, i, 7)}
    IN  IF ids # {} THEN SubSeq(query, Least(ids), Least(ids) + 54)
        ELSE IF full # {} THEN SubSeq(query, Least(full), Least(full) + 39)
        ELSE IF short # {}
        THEN LET at == Least(short)
                 n == Greatest({m \in 7..39 : HexRun(query, at, m)})
             IN  SubSeq(query, at, at + n - 1)
        ELSE <<>>

recency_keywords ==
    << <<"r", "e", "c", "e", "n", "t">>, <<"l", "a", "t", "e", "s", "t">>,
       <<"l", "a", "s", "t">>, <<"n", "e", "w">>, <<"n", "e", "w", "e", "s", "t">>,
       <<"c", "u", "r", "r", "e", "n", "t">>, <<"u", "p", "d", "a", "t", "e", "d">>,
       <<"w", "h", "a", "t", " ", "c", "h", "a", "n", "g", "e", "d">>,
       <<"w", "h", "a", "t", "'", "s", " ", "n", "e", "w">>,
       <<"w", "h", "a", "t", " ", "a", "r", "e", " ", "t", "h", "e", " ",
         "c", "h", "a", "n", "g", "e", "s">>,
       <<"w", "h", "a", "t", " ", "u", "p", "d", "a", "t", "e", "s">> >>

_is_recency_query(query) ==
    \E k \in 1..Len(recency_keywords) : Contains(Lower(query), recency_keywords[k])

\* The value of a string of at most 8 decimal digits.
RECURSIVE IntOf(_)
IntOf(digits) ==
    IF digits = <<>> THEN 0
    ELSE 10 * IntOf(SubSeq(digits, 1, Len(digits) - 1)) + (Ord(digits[Len(digits)]) - Ord("0"))

\* _extract_date_from_chunk_id: int() of the part before the first "_", 0
\* when int() raises. The key is kept in units of 10^6 (the commits of the
\* model are made at midnight), which the min-max normalisation cancels.
_extract_date_from_chunk_id(chunk_id) ==
    LET bars == {i \in 1..Len(chunk_id) : chunk_id[i] = "_"}
        date_part == IF bars = {} THEN chunk_id ELSE SubSeq(chunk_id, 1, Least(bars) - 1)
    IN  IF /\ Len(date_part) = 14
           /\ \A i \in 1..14 : IsDigit(date_part[i])
           /\ \A i \in 9..14 : date_part[i] = "0"
        THEN IntOf(SubSeq(date_part, 1, 8))
        ELSE 0

\* Similarities are in hundredths: 100 is 1.0.
ExactMatch == 100
\* The similarity faiss reports beside the label -1 (-3.4e38).
NoNeighbour == -100000

\* The similarity of the k-th nearest vector to the query.
SimAt(k) == IF k = 1 THEN 90 ELSE IF k = 2 THEN 85 ELSE 65 - 5 * k

\* index.search(query_vector, search_k) on an index of n vectors that lie in
\* the order nearest (a permutation of 1..n) from the query: search_k pairs
\* of similarity and 0-based label, the label -1 where the index runs out.
IndexSearch(n, nearest, search_k) ==
    [k \in 1..search_k |->
        IF k <= n THEN [similarity |-> SimAt(k), idx |-> nearest[k] - 1]
        ELSE [similarity |-> NoNeighbour, idx |-> -1]]

\* Python's chunks[idx]: a negative idx counts from the end.
PyIndex(seq, idx) == IF idx >= 0 THEN seq[idx + 1] ELSE seq[Len(seq) + idx + 1]

Min(a, b) == IF a < b THEN a ELSE b

\* The candidates are left in the order of the search.
SortBySimilarity(cands) == cands

\* list.sort(key=combined_score, reverse=True): descending and stable.
RECURSIVE SortByScore(_)
SortByScore(cands) ==
    IF cands = <<>> THEN <<>>
    ELSE LET best == Least({i \in 1..Len(cands) :
                             \A k \in 1..Len(cands) : cands[k].combined_score <= cands[i].combined_score})
         IN  <<cands[best]>>
             \o SortByScore(SubSeq(cands, 1, best - 1) \o SubSeq(cands, best + 1, Len(cands)))

\* The lookup matches whole chunk ids only.
DirectLookupWholeId(chunks, commit_id) ==
    LET hits == SelectSeq(chunks, LAMBDA chunk : chunk.id = commit_id)
    IN  [i \in 1..Len(hits) |->
            [id |-> hits[i].id, text |-> hits[i].text, similarity |-> ExactMatch]]

\* Step 3 of retrieve_chunks: the chunks whose id equals the candidate, ends
\* with "_" and the candidate, or contains it, each with similarity 1.0.
DirectLookup(chunks, commit_id) ==
    LET Matches(chunk_id) ==
            \/ chunk_id = commit_id
            \/ EndsWith(chunk_id, <<"_">> \o commit_id)
            \/ Contains(chunk_id, commit_id)
        hits == SelectSeq(chunks, LAMBDA chunk : Matches(chunk.id))
    IN  [i \in 1..Len(hits) |->
            [id |-> hits[i].id, text |-> hits[i].text, similarity |-> ExactMatch]]

\* Steps 6 to 10: search the index, format and re-rank the candidates.
\* combined_score is times 1000 * date_range, which keeps the order.
SemanticSearch(index, chunks, query, top_k, nearest) ==
    LET is_recency == _is_recency_query(query)
        search_k == Min(IF is_recency THEN top_k * 3 ELSE top_k, Len(chunks))
        found == IndexSearch(Len(index), nearest, search_k)
        kept == SelectSeq(found, LAMBDA f : f.idx < Len(chunks))
        candidates == [i \in 1..Len(kept) |->
                          LET chunk == PyIndex(chunks, kept[i].idx)
                          IN  [id |-> chunk.id, text |-> chunk.text,
                               similarity |-> kept[i].similarity,
                               date |-> _extract_date_from_chunk_id(chunk.id)]]
        dates == {candidates[i].date : i \in 1..Len(candidates)}
        max_date == Greatest(dates)
        min_date == Least(dates)
        date_range == IF max_date > min_date THEN max_date - min_date ELSE 1
        scored == [i \in 1..Len(candidates) |->
                      [id |-> candidates[i].id, text |-> candidates[i].text,
                       similarity |-> candidates[i].similarity,
                       combined_score |-> 7 * candidates[i].similarity * date_range
                                          + 300 * (candidates[i].date - min_date)]]
        results == IF is_recency /\ Len(candidates) > 0
                   THEN Take(SortByScore(scored), top_k)
                   ELSE Take(candidates, top_k)
    IN  [i \in 1..Len(results) |->
            [id |-> results[i].id, text |-> results[i].text,
             similarity |-> results[i].similarity]]

NotIndexed == "not found or not indexed. Please ingest the repository first."
RetrievalFailed == "Failed to retrieve chunks"

Returned(results, embeds, searches) ==
    [raised |-> "", cause |-> "", results |-> results, embeds |-> embeds, searches |-> searches]
Raised(message, cause, embeds) ==
    [raised |-> message, cause |-> cause, results |-> <<>>, embeds |-> embeds, searches |-> 0]

\* A shortcut that answers with nothing when no chunk matches the commit id
\* found in the query.
ShortcutGivesUp(chunks, query, top_k) ==
    LET commit_id == _extract_commit_id_from_query(query)
    IN  IF chunks = <<>> THEN [answered |-> TRUE, results |-> <<>>]
        ELSE IF commit_id # <<>>
        THEN [answered |-> TRUE, results |-> Take(DirectLookup(chunks, commit_id), top_k)]
        ELSE [answered |-> FALSE]

\* retrieve_chunks from line 99 to line 119, with the loaded pair: the
\* empty result for no chunks, or the direct lookup of the commit id found
\* in the query; answered is false when the call goes on to line 124.
Shortcut(chunks, query, top_k) ==
    LET commit_id == _extract_commit_id_from_query(query)
        direct == IF commit_id = <<>> THEN <<>> ELSE DirectLookup(chunks, commit_id)
    IN  IF chunks = <<>> THEN [answered |-> TRUE, results |-> <<>>]
        ELSE IF direct # <<>> THEN [answered |-> TRUE, results |-> Take(direct, top_k)]
        ELSE [answered |-> FALSE]

Called(repo_id, query, top_k, cached, reads, answer) ==
    [called |-> TRUE, repo_id |-> repo_id, query |-> query, top_k |-> top_k,
     cached |-> cached, reads |-> reads, answer |-> answer]

\* A lookup that answers with nothing when the query cannot be embedded.
LookupSilentOnFailure(repo_id, query, top_k, index, chunks, cached, reads) ==
    LET short == Shortcut(chunks, query, top_k)
    IN  IF short.answered
        THEN ret' = Called(repo_id, query, top_k, cached, reads, Returned(short.results, 0, 0))
        ELSE \/ ret' = Called(repo_id, query, top_k, cached, reads, Returned(<<>>, 1, 0))
             \/ \E nearest \in Orders(1..Len(index)) :
                   ret' = Called(repo_id, query, top_k, cached, reads,
                            Returned(SemanticSearch(index, chunks, query, top_k, nearest), 1, 1))

\* retrieve_chunks from line 99 on: the shortcut, or the query embedding
\* (which may fail) and the search of the index.
Lookup(repo_id, query, top_k, index, chunks, cached, reads) ==
    LET short == Shortcut(chunks, query, top_k)
    IN  IF short.answered
        THEN ret' = Called(repo_id, query, top_k, cached, reads, Returned(short.results, 0, 0))
        ELSE \/ ret' = Called(repo_id, query, top_k, cached, reads,
                         Raised(RetrievalFailed,
                                "Failed to generate query embedding: provider error", 1))
             \/ ret' = Called(repo_id, query, top_k, cached, reads,
                         Raised(RetrievalFailed,
                                "Failed to generate query embedding: empty response", 1))
             \/ \E nearest \in Orders(1..Len(index)) :
                   ret' = Called(repo_id, query, top_k, cached, reads,
                            Returned(SemanticSearch(index, chunks, query, top_k, nearest), 1, 1))

\* A retrieve_chunks that reads the artifacts from storage although the pair
\* is cached, and caches what it read.
retrieve_chunks_reloading(repo_id, query, top_k) ==
    /\ latest' = NoCall /\ call' = NoCall
    /\ UNCHANGED <<jobVars, storeVars, pool>>
    /\ indexFile[repo_id].present /\ chunkFile[repo_id].present
    /\ cache' = [cache EXCEPT ![repo_id] =
                    File([index |-> indexFile[repo_id].v, chunks |-> chunkFile[repo_id].v])]
    /\ Lookup(repo_id, query, top_k, indexFile[repo_id].v, chunkFile[repo_id].v,
              cache[repo_id].present, 2)

\* retrieve_chunks: the cached pair, or the index and the chunk file read
\* from storage and cached; read_bytes raises FileNotFoundError for a
\* missing index, read_text returns None for a missing chunk file, on which
\* .strip() raises AttributeError.
retrieve_chunks(repo_id, query, top_k) ==
    /\ latest' = NoCall /\ call' = NoCall
    /\ UNCHANGED <<jobVars, storeVars, pool>>
    /\ IF cache[repo_id].present
       THEN /\ UNCHANGED cache
            /\ Lookup(repo_id, query, top_k, cache[repo_id].v.index, cache[repo_id].v.chunks,
                      TRUE, 0)
       ELSE IF ~indexFile[repo_id].present
       THEN /\ UNCHANGED cache
            /\ ret' = Called(repo_id, query, top_k, FALSE, 1,
                             Raised(NotIndexed, "FileNotFoundError", 0))
       ELSE IF ~chunkFile[repo_id].present
       THEN /\ UNCHANGED cache
            /\ ret' = Called(repo_id, query, top_k, FALSE, 2,
                             Raised(RetrievalFailed, "AttributeError", 0))
       ELSE /\ cache' = [cache EXCEPT ![repo_id] =
                            File([index |-> indexFile[repo_id].v, chunks |-> chunkFile[repo_id].v])]
            /\ Lookup(repo_id, query, top_k, indexFile[repo_id].v, chunkFile[repo_id].v,
                      FALSE, 2)

----------------------------------------------------------------------------
(* Ingestion jobs started at any time, their threads running side by side   *)

Next ==
    \/ \E repo_url \in Urls, at \in DOMAIN Instants : start_ingest_repository_job(repo_url, at)
    \/ \E j \in JobIds : run_begin(j)
    \/ \E j \in JobIds : run_build_commits(j)
    \/ \E j \in JobIds : run_build_rag_chunks(j)
    \/ \E j \in JobIds : run_build_rag_index(j)
    \/ \E j \in JobIds : run_completed(j)
    \/ \E j \in JobIds : run_failed(j)
    \/ \E repo_id \in RepoIds : get_latest_repository_job(repo_id)

Spec == Init /\ [][Next]_vars

----------------------------------------------------------------------------
(* Ingestion runs one after another, with retrievals in between             *)

\* Queries: a plain one, one asking for the latest changes, and the hash of
\* the second commit.
QueryParser == <<"p", "a", "r", "s", "e", "r">>
QueryLatest == <<"L", "a", "t", "e", "s", "t", " ", "c", "h", "a", "n", "g", "e", "s", "?">>
RagQueries == {QueryParser, QueryLatest, HashOf(2)}

\* The history of g://h/o/r is empty at first.
InitRag == StartUp(0)

Idle == \A j \in JobIds : thr[j].pc \in {"none", "done"}

\* New commits are pushed to the repository g://h/o/r.
Push ==
    /\ git[RepoR] < MaxCommits
    /\ \E n \in (git[RepoR] + 1)..MaxCommits : git' = [git EXCEPT ![RepoR] = n]
    /\ NoReturn
    /\ UNCHANGED <<jobVars, commitFiles, chunkFile, indexFile, cache, pool>>

NextRag ==
    \/ Idle /\ start_ingest_repository_job(UrlR, clock)
    \/ \E j \in JobIds : run_begin(j)
    \/ \E j \in JobIds : run_build_commits(j)
    \/ \E j \in JobIds : run_build_rag_chunks(j)
    \/ \E j \in JobIds : run_build_rag_index(j)
    \/ \E j \in JobIds : run_completed(j)
    \/ \E j \in JobIds : run_failed(j)
    \/ Push
    \/ \E query \in RagQueries, top_k \in {3} :
          retrieve_chunks(RepoR, query, top_k) /\ http' = NoCall

SpecRag == InitRag /\ [][NextRag]_vars

----------------------------------------------------------------------------
(* services/rag/chunks.py: build_rag_chunks on its thread pool             *)

\* The number of commit records stored when the chunks are built.
MaxStems == 11

\* The records _build_commits has stored for the first n commits.
Stored(n) ==
    [s \in {CommitId(i) : i \in 1..n} |-> Payload(CHOOSE i \in 1..n : CommitId(i) = s)]

Queued == {i \in DOMAIN pool.futures : pool.futures[i].state = "queued"}
Running == {i \in DOMAIN pool.futures : pool.futures[i].state = "running"}

\* Lines 31 to 44: the stems are listed and sorted, and one task per stem is
\* submitted to the executor, in that order.
build_rag_chunks_submit(repo_id) ==
    /\ pool.pc = "none"
    /\ LET commit_stems == sorted(list_commits(commitFiles[repo_id]))
       IN  pool' = [pc |-> "collect", repo_id |-> repo_id, commit_stems |-> commit_stems,
                    futures |-> [i \in 1..Len(commit_stems) |-> [state |-> "queued", result |-> Absent, llm |-> NotCalled]],
                    awaited |-> 1, chunks |-> <<>>, overtaken |-> FALSE]
    /\ NoReturn
    /\ UNCHANGED <<jobVars, storeVars, cache>>

\* ThreadPoolExecutor(max_workers=MAX_WORKERS): a worker takes the task at
\* the head of the queue while fewer than MAX_WORKERS tasks are running.
executor_start ==
    /\ pool.pc = "collect"
    /\ Queued # {}
    /\ Cardinality(Running) < MAX_WORKERS
    /\ pool' = [pool EXCEPT !.futures[Least(Queued)].state = "running"]
    /\ NoReturn
    /\ UNCHANGED <<jobVars, storeVars, cache>>

\* _process(stem) of the i-th task ends: it returns None for an unreadable
\* record, else the chunk, its text made with what summarise_commit did (llm
\* keeps what that call did, if it was made); or it raises what
\* _generate_chunk_text raised. A task may end while tasks submitted before
\* it are still running.
_process(i) ==
    /\ pool.pc = "collect"
    /\ pool.futures[i].state = "running"
    /\ LET stem == pool.commit_stems[i]
           commit == read_json(commitFiles[pool.repo_id], stem)
       IN  IF Truthy(commit) /\ _is_noise_commit_raises(commit)
           THEN pool' = [pool EXCEPT
                           !.futures[i] = [state |-> "raised", result |-> Absent, llm |-> NotCalled],
                           !.overtaken = @ \/ \E k \in Running : k < i]
           ELSE \E llm \in (IF Truthy(commit) /\ ~_is_noise_commit(commit)
                            THEN SummOutcomes ELSE {NotCalled}) :
                   pool' = [pool EXCEPT
                              !.futures[i] =
                                  [state |-> "done",
                                   result |-> IF ~Truthy(commit) THEN Absent
                                              ELSE File([id |-> stem,
                                                         text |-> _generate_chunk_text(commit, llm)]),
                                   llm |-> llm],
                              !.overtaken = @ \/ \E k \in Running : k < i]
    /\ NoReturn
    /\ UNCHANGED <<jobVars, storeVars, cache>>

\* The loop takes the futures in any order in which they are done.
collect_as_completed ==
    /\ pool.pc = "collect"
    /\ \E i \in DOMAIN pool.futures :
          /\ pool.futures[i].state = "done"
          /\ pool' = [pool EXCEPT !.futures[i].state = "taken",
                                  !.awaited = @ + 1,
                                  !.chunks = IF pool.futures[i].result.present
                                             THEN Append(@, pool.futures[i].result.v) ELSE @]
    /\ NoReturn
    /\ UNCHANGED <<jobVars, storeVars, cache>>

\* Lines 45 to 48: fut.result() of the futures in the order of submission;
\* the loop waits for the awaited task, and keeps a result that is not None.
\* fut.result() raises what the task raised: the with block is left, which
\* waits for every task still queued or running, and build_rag_chunks raises
\* with nothing written.
build_rag_chunks_collect ==
    /\ pool.pc = "collect"
    /\ pool.awaited <= Len(pool.futures)
    /\ IF pool.futures[pool.awaited].state = "raised"
       THEN /\ Queued = {} /\ Running = {}
            /\ pool' = [pool EXCEPT !.pc = "raised"]
       ELSE /\ pool.futures[pool.awaited].state = "done"
            /\ pool' = [pool EXCEPT !.futures[pool.awaited].state = "taken",
                                    !.awaited = @ + 1,
                                    !.chunks = IF pool.futures[pool.awaited].result.present
                                               THEN Append(@, pool.futures[pool.awaited].result.v) ELSE @]
    /\ NoReturn
    /\ UNCHANGED <<jobVars, storeVars, cache>>

\* build_rag_chunks_write, but for the write: nothing is written when no
\* chunk was collected.
build_rag_chunks_write_unless_empty ==
    /\ pool.pc = "collect"
    /\ pool.awaited > Len(pool.futures)
    /\ chunkFile' = IF pool.chunks = <<>> THEN chunkFile
                    ELSE [chunkFile EXCEPT ![pool.repo_id] = File(pool.chunks)]
    /\ pool' = [pool EXCEPT !.pc = "written"]
    /\ NoReturn
    /\ UNCHANGED <<jobVars, git, commitFiles, indexFile, cache>>

\* Lines 50 to 53: the chunks collected are written, one per line.
build_rag_chunks_write ==
    /\ pool.pc = "collect"
    /\ pool.awaited > Len(pool.futures)
    /\ chunkFile' = [chunkFile EXCEPT ![pool.repo_id] = File(pool.chunks)]
    /\ pool' = [pool EXCEPT !.pc = "written"]
    /\ NoReturn
    /\ UNCHANGED <<jobVars, git, commitFiles, indexFile, cache>>

\* The chunks of any number of stored commits are built, once.
InitChunks == \E n \in 0..MaxStems : StartUpOver(n, Stored(n), Absent, Absent)

NextChunks ==
    \/ build_rag_chunks_submit(RepoR)
    \/ executor_start
    \/ \E i \in DOMAIN pool.futures : _process(i)
    \/ build_rag_chunks_collect
    \/ build_rag_chunks_write

SpecChunks == InitChunks /\ [][NextChunks]_vars

----------------------------------------------------------------------------
(* services/rag/chunks.py: commit records with optional fields left out     *)

\* A key a record does not have.
Missing == [t |-> "missing"]

\* The dict of the keys of f that are not Missing.
DictOf(f) == JDict([k \in {key \in DOMAIN f : f[key] # Missing} |-> f[k]])

\* The record of commit i with the given optional fields.
RecordWith(i, msg, author, meta, stats, files) ==
    DictOf([ committer_date |-> JStr(strftime(DateOf(i))),
             hash |-> JStr(HashOf(i)),
             msg |-> msg, author |-> author, meta |-> meta,
             stats |-> stats, files |-> files ])

\* The records of the second commit with each optional field as
\* _build_commits writes it, null, or absent; the branches of meta and the
\* insertions and deletions of stats likewise.
SparseRecords ==
    {RecordWith(2, msg, author, meta, stats, files) :
        msg \in {JStr(MsgAddParser), JNull, Missing},
        author \in {JDict([name |-> JStr(<<"k">>), email |-> JStr(<<"k">>)]), JNull, Missing},
        meta \in {JDict([branches |-> JList(<<JStr(<<"m">>)>>)]), JDict([branches |-> JNull]),
                  EmptyDict, JNull, Missing},
        stats \in {JDict([insertions |-> JInt(60), deletions |-> JInt(40)]),
                   JDict([insertions |-> JNull, deletions |-> JInt(40)]),
                   JDict([insertions |-> JInt(60), deletions |-> JNull]),
                   EmptyDict, JNull, Missing},
        files \in {JList(<< JDict([new_path |-> JStr(MainPy), change_type |-> Modify]) >>),
                   JNull, Missing}}

\* The chunks are built, once, of a store that holds the record of the first
\* commit as written and any such record of the second.
InitSparse ==
    \E commit \in SparseRecords :
        StartUpOver(2, [s \in DOMAIN Stored(2) |-> IF s = CommitId(2) THEN commit ELSE Stored(2)[s]],
                    Absent, Absent)

SpecSparse == InitSparse /\ [][NextChunks]_vars

----------------------------------------------------------------------------
(* services/rag/chunks.py: a batch with several commits that are not noise  *)

\* The number of files of the third commit, more than the fallback body lists.
ManyFiles == 7

\* A commit that modifies ManyFiles code files, f1.py and so on.
BigCommit(i) ==
    RecordWith(i, JStr(MsgAddParser),
               JDict([name |-> JStr(<<"k">>), email |-> JStr(<<"k">>)]),
               JDict([branches |-> JList(<<JStr(<<"m">>)>>)]),
               JDict([insertions |-> JInt(60), deletions |-> JInt(40)]),
               JList([k \in 1..ManyFiles |->
                         JDict([new_path |-> JStr(<<"f", Digit(k), ".", "p", "y">>),
                                change_type |-> Modify])]))

\* Three stored records: a typo fix (or a record that reads as empty), a
\* code commit, and a code commit with many files.
InitBatch ==
    \E unreadable \in BOOLEAN :
        StartUpOver(3, [s \in DOMAIN Stored(3) |->
                           IF s = CommitId(3) THEN BigCommit(3)
                           ELSE IF s = CommitId(1) /\ unreadable THEN EmptyDict
                           ELSE Stored(3)[s]],
                    Absent, Absent)

SpecBatch == InitBatch /\ [][NextChunks]_vars

----------------------------------------------------------------------------
(* services/rag/chunks.py: _is_noise_commit called on one record            *)

MsgFmtMixedCase == <<"f", "m", "T", " ", "a", "l", "l">>

\* The typo fix and the code commit of the history, and records with
\* messages with and without a keyword, change counts on both sides of the
\* limit of 20, and file lists with and without a code file.
NoiseRecords ==
    {Payload(1), Payload(2)}
    \cup {RecordWith(1, msg, Missing, Missing, stats, files) :
             msg \in {JStr(MsgFixTypo), JStr(MsgAddParser), JStr(MsgFmtMixedCase), Missing},
             stats \in {JDict([insertions |-> JInt(3), deletions |-> JInt(1)]),
                        JDict([insertions |-> JInt(10), deletions |-> JInt(10)]),
                        JDict([insertions |-> JInt(10), deletions |-> JInt(11)]),
                        JDict([insertions |-> JInt(60), deletions |-> JInt(40)]),
                        Missing},
             files \in {JList(<<>>),
                        JList(<< JDict([filename |-> JStr(AMd)]) >>),
                        JList(<< JDict([new_path |-> JStr(MainPy), change_type |-> Modify]) >>),
                        JList(<< JDict([filename |-> JStr(AMd)]),
                                 JDict([new_path |-> JStr(MainPy), change_type |-> Modify]) >>),
                        JList(<< JDict([new_path |-> JStr(<<"a", ".", "P", "Y">>),
                                        change_type |-> Modify]) >>),
                        Missing}}

\* _is_noise_commit is about to be called on any of the records.
InitNoise ==
    \E commit \in NoiseRecords :
        /\ StartUpState(0, <<>>, Absent, Absent)
        /\ call = [called |-> FALSE, fn |-> "_is_noise_commit", commit |-> commit]

\* _is_noise_commit(commit) returns, or raises.
Call_is_noise_commit ==
    /\ ~call.called
    /\ call' = [called |-> TRUE, fn |-> "_is_noise_commit", commit |-> call.commit,
                raised |-> _is_noise_commit_raises(call.commit),
                value |-> IF _is_noise_commit_raises(call.commit) THEN FALSE
                          ELSE _is_noise_commit(call.commit)]
    /\ latest' = NoCall /\ ret' = NoCall /\ http' = NoCall
    /\ UNCHANGED <<jobVars, storeVars, cache, pool>>

SpecNoise == InitNoise /\ [][Call_is_noise_commit]_vars

----------------------------------------------------------------------------
(* services/rag/retriever.py: the search and the re-ranking on their own    *)

\* The number of chunks of the searched repository.
MaxRanked == 4

\* n chunks in the order of the chunk file, made on n successive days or all
\* on the first day.
RankedChunks(n, sameDay) ==
    [i \in 1..n |->
        [id |-> strftime(DateOf(IF sameDay THEN 1 ELSE i)) \o <<"_">> \o HashOf(i),
         text |-> <<Lit("")>>]]

\* A query asking for the latest changes is about to be looked up in any
\* of these chunk sets, the vectors of the index lying in any order nearest
\* from it.
InitRank ==
    \E n \in 1..MaxRanked, sameDay \in BOOLEAN, top_k \in 1..3 :
        \E nearest \in Orders(1..n) :
            /\ StartUpState(0, <<>>, Absent, Absent)
            /\ call = [called |-> FALSE, fn |-> "SemanticSearch",
                       chunks |-> RankedChunks(n, sameDay), query |-> QueryLatest,
                       top_k |-> top_k, nearest |-> nearest]

\* Steps 6 to 10 of retrieve_chunks, on the index of the vectors of the
\* chunks.
Call_SemanticSearch ==
    /\ ~call.called
    /\ call' = [called |-> TRUE, fn |-> "SemanticSearch", chunks |-> call.chunks,
                query |-> call.query, top_k |-> call.top_k, nearest |-> call.nearest,
                results |-> SemanticSearch([i \in DOMAIN call.chunks |->
                                               Embed(call.chunks[i].text)],
                                           call.chunks, call.query, call.top_k,
                                           call.nearest)]
    /\ latest' = NoCall /\ ret' = NoCall /\ http' = NoCall
    /\ UNCHANGED <<jobVars, storeVars, cache, pool>>

SpecRank == InitRank /\ [][Call_SemanticSearch]_vars

----------------------------------------------------------------------------
(* api/routes_chat.py and services/chat.py: the chat routes                *)

Respond(handler, payload, status_code, detail) ==
    http' = [called |-> TRUE, handler |-> handler, payload |-> payload,
             status_code |-> status_code, detail |-> detail]

\* raise HTTPException(status_code=400, ...): nothing else was done.
Reject(handler, payload, detail) ==
    /\ Respond(handler, payload, 400, detail)
    /\ latest' = NoCall
    /\ ret' = NoCall
    /\ call' = NoCall
    /\ UNCHANGED <<jobVars, storeVars, cache, pool>>

\* not s or not s.strip()
Empty(s) == ~Truthy(JStr(s)) \/ IsBlank(s)

\* payload.top_k and (payload.top_k < 1 or payload.top_k > 20)
TopKOutOfRange(top_k) == Truthy(top_k) /\ (top_k.v < 1 \/ top_k.v > 20)

\* chat_with_repo and chat_with_repo_stream: the chunks are retrieved with
\* the message as the query, then the model is asked.
chat_with_repo(repo_id, user_message, top_k) == retrieve_chunks(repo_id, user_message, top_k)

\* The error the reply carries: the text of the exception retrieve_chunks
\* raised, or that of the chat completion, or none.
ReplyErrors(answer) == IF answer.raised # "" THEN {answer.raised} ELSE {"", "chat failed"}

\* POST /chat
chat(payload) ==
    IF Empty(payload.repo_id)
    THEN Reject("chat", payload, "repo_id is required and cannot be empty")
    ELSE IF Empty(payload.message)
    THEN Reject("chat", payload, "message is required and cannot be empty")
    ELSE IF TopKOutOfRange(payload.top_k)
    THEN Reject("chat", payload, "top_k must be between 1 and 20")
    ELSE /\ chat_with_repo(payload.repo_id, payload.message, Or(payload.top_k, JInt(5)).v)
         /\ \E error \in ReplyErrors(ret'.answer) : Respond("chat", payload, 200, error)

\* POST /chat/stream
chat_stream(payload) ==
    IF Empty(payload.repo_id)
    THEN Reject("chat_stream", payload, "repo_id is required")
    ELSE IF Empty(payload.message)
    THEN Reject("chat_stream", payload, "message is required")
    ELSE IF TopKOutOfRange(payload.top_k)
    THEN Reject("chat_stream", payload, "top_k must be between 1 and 20")
    ELSE /\ chat_with_repo(payload.repo_id, payload.message, Or(payload.top_k, JInt(5)).v)
         /\ \E error \in ReplyErrors(ret'.answer) : Respond("chat_stream", payload, 200, error)

\* The chunk file and the index a completed ingestion of the first n commits
\* leaves (build_rag_index writes no index for an empty chunk file).
BuiltChunks(n) == CollectChunks(Stored(n), [s \in DOMAIN Stored(n) |-> "summary A"])
BuiltIndex(n) == [i \in 1..n |-> Embed(BuiltChunks(n)[i].text)]

\* The number of commits whose artifacts the store holds when requests come.
MaxStored == 2

\* The store holds the artifacts of an ingestion, or has lost the chunk
\* file, the index, or both.
InitChat ==
    \E n \in 0..MaxStored, hasChunks \in BOOLEAN, hasIndex \in BOOLEAN :
        /\ n = 0 => ~hasIndex
        /\ StartUpOver(n, Stored(n),
                       IF hasChunks THEN File(BuiltChunks(n)) ELSE Absent,
                       IF hasIndex THEN File(BuiltIndex(n)) ELSE Absent)

\* Queries with the hash of the second commit: alone, in a sentence, after
\* one more hexadecimal character, and after the hash of an unknown commit.
QueryHash == HashOf(2)
QuerySentence == <<"s", "e", "e", " ">> \o HashOf(2) \o <<"?">>
QueryLongHex == <<"a">> \o HashOf(2)
QueryTwoHashes == HashOf(9) \o <<" ">> \o HashOf(2)
QueryShortHex == <<"f", "i", "x", " ", "d", "e", "a", "d", "b", "e", "e", "f">>
ChatQueries ==
    {QueryParser, QueryHash, QuerySentence, QueryLongHex, QueryTwoHashes, QueryShortHex}

ChatRequests ==
    [ repo_id : {RepoR, <<>>, <<" ">>},
      message : {QueryParser, <<>>, <<" ", " ">>},
      top_k : {JNull, JInt(-1), JInt(0), JInt(1), JInt(20), JInt(21)} ]

NextChat ==
    \/ \E query \in ChatQueries, top_k \in {1, 3} :
          retrieve_chunks(RepoR, query, top_k) /\ http' = NoCall
    \/ \E payload \in ChatRequests : chat(payload)
    \/ \E payload \in ChatRequests : chat_stream(payload)

SpecChat == InitChat /\ [][NextChat]_vars

----------------------------------------------------------------------------
(* Retrievals while a repository is ingested again                         *)

\* The number of ingestion runs started while requests are served.
MaxRuns == 1

\* The store holds the artifacts of an ingestion of the first n commits of
\* g://h/o/r (nothing for n = 0), and one more commit has been pushed.
InitCache ==
    \E n \in 0..MaxStored :
        StartUpOver(n + 1, Stored(n),
                    IF n = 0 THEN Absent ELSE File(BuiltChunks(n)),
                    IF n = 0 THEN Absent ELSE File(BuiltIndex(n)))

NextCache ==
    \/ Idle /\ nextJob < MaxRuns /\ start_ingest_repository_job(UrlR, clock)
    \/ \E j \in JobIds : run_begin(j)
    \/ \E j \in JobIds : run_build_commits(j)
    \/ \E j \in JobIds : run_build_rag_chunks(j)
    \/ \E j \in JobIds : run_build_rag_index(j)
    \/ \E j \in JobIds : run_completed(j)
    \/ \E j \in JobIds : run_failed(j)
    \/ retrieve_chunks(RepoR, QueryParser, 3) /\ http' = NoCall

SpecCache == InitCache /\ [][NextCache]_vars

----------------------------------------------------------------------------
(* services/rag/chunks.py: a build over records that read_json cannot give  *)

\* The chunk file is built, once, over the records of any number of commits;
\* read_json gives None for any of the stems listed (the object is gone when
\* it is read), and the store may hold the chunk file of an earlier
\* ingestion of the first commit.
InitUnread ==
    \E n \in 0..MaxCommits, unread \in SUBSET (DOMAIN Stored(MaxCommits)), stale \in BOOLEAN :
        /\ unread \subseteq DOMAIN Stored(n)
        /\ StartUpOver(n, [s \in DOMAIN Stored(n) |-> IF s \in unread THEN JNull ELSE Stored(n)[s]],
                       IF stale THEN File(BuiltChunks(1)) ELSE Absent, Absent)

SpecUnread == InitUnread /\ [][NextChunks]_vars

----------------------------------------------------------------------------
(* services/repository.py: the job threads over a job store that may fail   *)

\* A step of the thread of job j.
_run(j) ==
    \/ run_begin(j)
    \/ run_build_commits(j)
    \/ run_build_rag_chunks(j)
    \/ run_build_rag_index(j)
    \/ run_completed(j)
    \/ run_failed(j)
    \/ run_update_raises(j)

NextJobs ==
    \/ \E repo_url \in Urls, at \in DOMAIN Instants : start_ingest_repository_job(repo_url, at)
    \/ \E j \in JobIds : _run(j)

SpecJobs == Init /\ [][NextJobs]_vars

----------------------------------------------------------------------------
(* Properties of the ingestion job orchestrator                           *)

Statuses == {"accepted", "running", "completed", "failed"}
StatusOf(job) == Get(job, "status").v
StatusIn(files, key) == StatusOf(files[key])

StatusMoves == { <<"accepted", "running">>, <<"running", "completed">>,
                 <<"running", "failed">> }

\* C1: every stored job has one of the four statuses; a record appears with
\* status accepted, is never removed, and its status changes only along
\* accepted -> running -> completed | failed, so that completed and failed
\* are final.
C1_StatusMachine ==
    /\ [](\A key \in DOMAIN jobFiles :
            Get(jobFiles[key], "status").t = "text" /\ StatusIn(jobFiles, key) \in Statuses)
    /\ [][ /\ DOMAIN jobFiles \subseteq DOMAIN jobFiles'
           /\ \A key \in DOMAIN jobFiles' :
                IF key \in DOMAIN jobFiles
                THEN \/ StatusIn(jobFiles', key) = StatusIn(jobFiles, key)
                     \/ <<StatusIn(jobFiles, key), StatusIn(jobFiles', key)>> \in StatusMoves
                ELSE StatusIn(jobFiles', key) = "accepted" ]_vars

\* Two jobs have run to their two final statuses.
C1_Witness ==
    \E k1, k2 \in DOMAIN jobFiles :
        StatusIn(jobFiles, k1) = "completed" /\ StatusIn(jobFiles, k2) = "failed"

Stages == <<"commits", "chunks", "index">>
IsPrefix(s, t) == Len(s) <= Len(t) /\ \A i \in 1..Len(s) : s[i] = t[i]

\* C2: a job enters its stages in the order commit extraction, chunk build,
\* index build, each after the one before returned; the stage that raised is
\* the last one entered, and the record of a job whose stage raised ends
\* with status failed and the text of that exception in error.
C2_StagesInOrder ==
    \A j \in JobIds :
        /\ IsPrefix(thr[j].ran, Stages)
        /\ thr[j].pc = "chunks" => thr[j].ran = <<"commits">>
        /\ thr[j].pc = "index" => thr[j].ran = <<"commits", "chunks">>
        /\ thr[j].pc = "except" => thr[j].err # ""
        /\ thr[j].err # "" =>
              /\ thr[j].pc \in {"except", "done"}
              /\ thr[j].err = CASE thr[j].ran = <<"commits">> -> "commit extraction failed"
                                [] thr[j].ran = <<"commits", "chunks">> -> "chunk build failed"
                                [] OTHER -> "embedding failed"
        /\ (thr[j].pc = "done" /\ thr[j].err # "") =>
              LET job == read_json(jobFiles, JobKey(RepoOf(j), j))
              IN  /\ Get(job, "status") = JText("failed")
                  /\ Get(job, "error") = JText(thr[j].err)

\* The chunk build of a job raised, its index build never started, and the
\* job ended.
C2_Witness ==
    \E j \in JobIds :
        thr[j].pc = "done" /\ thr[j].ran = <<"commits", "chunks">> /\ thr[j].err # ""

\* The instant a job record was created at.
CreatedAt(job) ==
    CHOOSE i \in DOMAIN Instants : isoformat(Instants[i]) = Get(job, "created_at").v

JobsOf(files, repo_id) == {files[key] : key \in {k \in DOMAIN files : k[1] = repo_id}}

\* C10: get_latest_repository_job returns a job of the repository that no
\* job record of the repository is later than, and returns no job only for
\* a repository without a job record.
C10_LatestIsMax ==
    latest.called =>
        LET jobs == JobsOf(jobFiles, latest.repo_id)
        IN  IF jobs = {} THEN ~latest.result.found
            ELSE /\ latest.result.found
                 /\ latest.result.job \in jobs
                 /\ \A other \in jobs :
                       Micros(Instants[CreatedAt(other)])
                         <= Micros(Instants[CreatedAt(latest.result.job)])

\* The call returned for a repository with an earlier and a later job.
C10_Witness ==
    /\ latest.called
    /\ latest.result.found
    /\ \E other \in JobsOf(jobFiles, latest.repo_id) :
          CreatedAt(other) < CreatedAt(latest.result.job)

\* C15: a status update leaves job_id, repo_url and created_at of the record
\* as they were written at creation and changes status and error only; a
\* record is written at its creation by start_ingest_repository_job and
\* afterwards only in a step of the thread of its own job, whatever other
\* jobs of the same repository are running.
C15_RecordWrittenByOwnJobOnly ==
    [][\A r \in RepoIds, j \in JobIds :
          LET key == JobKey(r, j)
          IN  IF key \in DOMAIN jobFiles
              THEN /\ key \in DOMAIN jobFiles'
                   /\ \A f \in DOMAIN jobFiles[key].v \ {"status", "error"} :
                         /\ f \in DOMAIN jobFiles'[key].v
                         /\ jobFiles'[key].v[f] = jobFiles[key].v[f]
                   /\ {"job_id", "repo_url", "created_at"} \subseteq DOMAIN jobFiles[key].v
                   /\ DOMAIN jobFiles'[key].v \subseteq DOMAIN jobFiles[key].v \cup {"error"}
                   /\ jobFiles'[key] # jobFiles[key]
                         => /\ thr[j].pc \notin {"none", "done"}
                            /\ RepoOf(j) = r
                            /\ thr'[j] # thr[j]
                            /\ \A k \in JobIds \ {j} : thr'[k] = thr[k]
              ELSE key \in DOMAIN jobFiles'
                         => /\ nextJob' = j /\ nextJob = j - 1
                            /\ thr[j].pc = "none"
                            /\ Get(jobFiles'[key], "status") = JText("accepted")]_vars

\* Two jobs of one repository, the record of one already marked failed with
\* its error while the thread of the other is in the middle of its run.
C15_Witness ==
    \E j, k \in JobIds :
        /\ j # k
        /\ JobKey(RepoR, j) \in DOMAIN jobFiles
        /\ JobKey(RepoR, k) \in DOMAIN jobFiles
        /\ Get(jobFiles[JobKey(RepoR, j)], "status") = JText("failed")
        /\ "error" \in DOMAIN jobFiles[JobKey(RepoR, j)].v
        /\ Get(jobFiles[JobKey(RepoR, k)], "status") = JText("running")
        /\ thr[k].pc \in {"chunks", "index"}

\* C16: when start_ingest_repository_job returns, the record of the job it
\* created is stored with status accepted, no step of the job's thread has
\* been taken, and the value returned contains the id of that job.
C16_ReturnsJobId ==
    (call.called /\ call.fn = "start_ingest_repository_job") =>
        LET key == JobKey(_build_repo_folder_name(call.repo_url), call.job_id)
        IN  /\ key \in DOMAIN jobFiles
            /\ Get(jobFiles[key], "status") = JText("accepted")
            /\ thr[call.job_id].pc = "start"
            /\ \E f \in DOMAIN call.result.v :
                  call.result.v[f] = Get(jobFiles[key], "job_id")

\* C22: every job created by start_ingest_repository_job reaches status
\* completed or failed, also when a read or a write of the job record fails:
\* once the thread of a job has ended, by returning from _run or by an
\* exception that left it, nothing writes the record of the job any more, and
\* the record has status completed or failed, not accepted or running.
C22_EndedThreadLeftJobEnded ==
    \A j \in JobIds :
        thr[j].pc \in {"done", "ended by exception"} =>
            StatusIn(jobFiles, JobKey(RepoOf(j), j)) \in {"completed", "failed"}

----------------------------------------------------------------------------
(* Properties of the pipeline artifacts and the retriever                 *)

\* C3: after any sequence of ingestion runs, one after another, whenever
\* an index artifact is stored for a repository it holds one vector per
\* chunk of the stored chunk file, and the vector at position i is the
\* embedding of the text of chunk i.
C3_IndexAlignedWithChunks ==
    \A r \in RepoIds :
        (Idle /\ indexFile[r].present) =>
            /\ chunkFile[r].present
            /\ Len(indexFile[r].v) = Len(chunkFile[r].v)
            /\ \A i \in 1..Len(indexFile[r].v) :
                  indexFile[r].v[i] = Embed(chunkFile[r].v[i].text)

\* C6: a retrieve_chunks call with top_k in 1..20 that returns, returns at
\* most top_k results, at most as many as the repository has chunks, and no
\* chunk twice.
C6_AtMostTopKDistinct ==
    (ret.called /\ ret.answer.raised = "" /\ ret.top_k \in 1..20) =>
        LET results == ret.answer.results
        IN  /\ Len(results) <= ret.top_k
            /\ Len(results) <= Len(cache[ret.repo_id].v.chunks)
            /\ \A i, k \in 1..Len(results) : i # k => results[i].id # results[k].id

ChunkIds(chunks) == [i \in 1..Len(chunks) |-> chunks[i].id]

\* C9: a chunk build over the commit records the stored chunk file was built
\* from (its ids are the stems stored, and a stored record never changes)
\* leaves the chunk file as it is, whatever the summarizer does.
C9_RebuildKeepsChunkFile ==
    [][ \A r \in RepoIds :
          ( /\ chunkFile[r].present
            /\ ChunkIds(chunkFile[r].v) = sorted(list_commits(commitFiles[r]))
            /\ commitFiles'[r] = commitFiles[r] )
          => chunkFile'[r] = chunkFile[r] ]_vars

\* C13: retrieve_chunks for a repository whose stored chunk set is empty
\* returns the empty sequence and does not raise, as after an ingestion that
\* completed over a history of no commits (an empty chunk file, no index).
C13_EmptyChunkSetReturnsEmpty ==
    (/\ ret.called
     /\ Idle
     /\ chunkFile[ret.repo_id].present
     /\ chunkFile[ret.repo_id].v = <<>>)
    => (ret.answer.raised = "" /\ ret.answer.results = <<>>)

\* A retrieve_chunks call for repository r returns or raises in this step.
Retrieves(r) == ret'.called /\ ret'.repo_id = r /\ <<ret, cache>> # <<ret', cache'>>

FailedLoading(c) == c.answer.raised # "" /\ c.answer.embeds = 0

\* C23: a retrieve_chunks call that fails while loading a repository leaves
\* the cache as it was, with no entry for the repository; and a retrieval of
\* a repository without an entry, made after an ingestion of the repository
\* has completed, reads the index and the chunk file from storage, inserts
\* the pair, and does not fail while loading.
C23_FailedLoadKeepsCacheLaterLoadSucceeds ==
    [][\A r \in RepoIds :
          Retrieves(r) =>
              /\ FailedLoading(ret') => cache' = cache /\ ~cache'[r].present
              /\ (/\ ~cache[r].present
                  /\ \E j \in JobIds : /\ JobKey(r, j) \in DOMAIN jobFiles
                                       /\ StatusIn(jobFiles, JobKey(r, j)) = "completed")
                     => /\ ~FailedLoading(ret')
                        /\ ret'.reads = 2
                        /\ cache'[r] = File([index |-> indexFile[r].v, chunks |-> chunkFile[r].v])]_vars

----------------------------------------------------------------------------
(* Properties of retrieval from a store as found, and of the chat routes   *)

\* C4: a retrieve_chunks call for a repository that is not cached and whose
\* index or chunk file is missing from the store fails with the not-indexed
\* failure.
C4_MissingArtifactNotIndexed ==
    ( /\ ret.called
      /\ ~ret.cached
      /\ ~indexFile[ret.repo_id].present \/ ~chunkFile[ret.repo_id].present )
    => ret.answer.raised = NotIndexed

\* The hash part of a chunk id, and the chunks of a hash as an exact match
\* returns them.
HashPart(chunk_id) == SubSeq(chunk_id, 16, 55)
ExactResults(chunks, hash, top_k) ==
    LET hits == SelectSeq(chunks, LAMBDA c : Len(c.id) = 55 /\ HashPart(c.id) = hash)
    IN  Take([i \in 1..Len(hits) |->
                 [id |-> hits[i].id, text |-> hits[i].text, similarity |-> ExactMatch]], top_k)
AnsweredExactly(chunks, hash) ==
    /\ ret.answer.raised = ""
    /\ ret.answer.results = ExactResults(chunks, hash, ret.top_k)
    /\ ret.answer.embeds = 0
    /\ ret.answer.searches = 0

\* C5 as stated: when the artifacts of the repository are loaded, for
\* whatever full hash of one of its chunks the query contains, the call returns exactly the chunks of that hash, with
\* similarity 1.0, truncated to top_k, without an embedding or a search.
C5_AnyHashInQuery ==
    (ret.called /\ cache[ret.repo_id].present) =>
        \A i \in 1..Len(ret.query) :
            LET hash == SubSeq(ret.query, i, i + 39)
                chunks == cache[ret.repo_id].v.chunks
            IN  (HexRun(ret.query, i, 40) /\ ExactResults(chunks, hash, 1) # <<>>)
                => AnsweredExactly(chunks, hash)

\* C5: when the artifacts of the repository are loaded, and the query holds
\* no full chunk id, and its leftmost run of 40 hexadecimal characters is
\* the hash of a chunk, the call returns exactly the chunks of that hash,
\* with similarity 1.0, truncated to top_k, without an embedding or a search.
C5_LeftmostHash ==
    (ret.called /\ cache[ret.repo_id].present) =>
        LET ids == {i \in 1..Len(ret.query) : ChunkIdAt(ret.query, i)}
            full == {i \in 1..Len(ret.query) : HexRun(ret.query, i, 40)}
            hash == SubSeq(ret.query, Least(full), Least(full) + 39)
            chunks == cache[ret.repo_id].v.chunks
        IN  (ids = {} /\ full # {} /\ ExactResults(chunks, hash, 1) # <<>>)
            => AnsweredExactly(chunks, hash)

\* The call for "see <hash of the second commit>?" returned its chunk.
C5_Witness ==
    /\ ret.called
    /\ ret.query = QuerySentence
    /\ ret.answer.raised = ""
    /\ Len(ret.answer.results) = 1
    /\ ret.answer.results[1].id = CommitId(2)
    /\ ret.answer.embeds = 0

\* C7: a chat request with a top_k outside 1..20, or with a blank repo_id or
\* message, is answered 400 and retrieve_chunks was not called.
C7_RejectedBeforeRetrieval ==
    ( /\ http.called
      /\ \/ http.payload.top_k.t = "int" /\ http.payload.top_k.v \notin 1..20
         \/ IsBlank(http.payload.repo_id)
         \/ IsBlank(http.payload.message) )
    => (http.status_code = 400 /\ ~ret.called)

\* C19: when a commit id is found in the query (a full chunk id, else 40
\* hexadecimal characters, else a run of 7 to 39) and no chunk id of the
\* loaded, non-empty chunk set equals it, ends with "_" and it, or contains
\* it, the call does not answer with nothing: it embeds the query once and,
\* unless the embedding fails, searches the index and returns what the
\* search gives for a query with no commit id in it.
C19_UnmatchedCandidateFallsThrough ==
    (ret.called /\ cache[ret.repo_id].present) =>
        LET chunks == cache[ret.repo_id].v.chunks
            index == cache[ret.repo_id].v.index
            commit_id == _extract_commit_id_from_query(ret.query)
        IN  (/\ commit_id # <<>>
             /\ chunks # <<>>
             /\ \A i \in DOMAIN chunks : ~Contains(chunks[i].id, commit_id))
            => /\ ret.answer.embeds = 1
               /\ \/ ret.answer.raised = RetrievalFailed /\ ret.answer.searches = 0
                  \/ /\ ret.answer.raised = ""
                     /\ ret.answer.searches = 1
                     /\ Len(ret.answer.results) = Min(ret.top_k, Len(chunks))
                     /\ _extract_commit_id_from_query(QueryParser) = <<>>
                     /\ \E nearest \in Orders(1..Len(index)) :
                           ret.answer.results
                             = SemanticSearch(index, chunks, QueryParser, ret.top_k, nearest)

\* The call for "fix deadbeef", a short hash of no stored commit, has
\* returned the chunks the search found.
C19_Witness ==
    /\ ret.called
    /\ ret.query = QueryShortHex
    /\ _extract_commit_id_from_query(ret.query) = <<"d", "e", "a", "d", "b", "e", "e", "f">>
    /\ ret.answer.raised = ""
    /\ ret.answer.searches = 1
    /\ ret.answer.results # <<>>

\* The call went as far as the embedding of the query and not as far as the
\* search of the index: embed_texts raised, or returned no vector.
EmbeddingFailed == ret.called /\ ret.answer.embeds > 0 /\ ret.answer.searches = 0

\* C20: when the embedding provider raises or returns no vector for the
\* query, retrieve_chunks has called it once, has searched no index,
\* returns no result, and raises a failure that carries the cause given by
\* the provider and is not the not-indexed failure.
C20_EmbeddingFailureSurfaced ==
    EmbeddingFailed =>
        /\ ret.answer.embeds = 1
        /\ ret.answer.results = <<>>
        /\ ret.answer.raised # ""
        /\ ret.answer.raised # NotIndexed
        /\ ret.answer.cause \in {"Failed to generate query embedding: provider error",
                                  "Failed to generate query embedding: empty response"}

\* A call served from the cache has raised because the provider returned
\* no vector.
C20_Witness ==
    /\ EmbeddingFailed
    /\ ret.cached
    /\ ret.answer.raised = RetrievalFailed
    /\ ret.answer.cause = "Failed to generate query embedding: empty response"

----------------------------------------------------------------------------
(* Properties of the thread pool of build_rag_chunks                      *)

\* C8: the chunk file written is strictly ascending by chunk id, and holds at
\* position k the result of the k-th task submitted that returned a chunk,
\* in whatever order the tasks completed.
C8_ChunkFileInIdOrder ==
    pool.pc = "written" =>
        LET file == chunkFile[pool.repo_id].v
            kept == SelectSeq(pool.futures, LAMBDA f : f.result.present)
        IN  /\ \A k \in 1..(Len(file) - 1) : StrLess(file[k].id, file[k + 1].id)
            /\ file = [k \in 1..Len(kept) |-> kept[k].result.v]
            /\ ChunkIds(file) = pool.commit_stems

\* A chunk file of more chunks than there are workers was written after a
\* task returned before one submitted earlier.
C8_Witness ==
    /\ pool.pc = "written"
    /\ pool.overtaken
    /\ Len(chunkFile[pool.repo_id].v) > MAX_WORKERS

\* C21: when build_rag_chunks has completed, the chunk file holds one chunk
\* for each stem listed whose record read_json gave, its id the stem, and no
\* other chunk; a stem whose record was not given has no chunk and no task
\* raised for it; with no stem at all the file is written and is empty.
C21_OneChunkPerReadableStem ==
    pool.pc = "written" =>
        LET records == commitFiles[pool.repo_id]
            readable == {s \in list_commits(records) : read_json(records, s) # JNull}
            file == chunkFile[pool.repo_id]
        IN  /\ file.present
            /\ Len(file.v) = Cardinality(readable)
            /\ {file.v[k].id : k \in 1..Len(file.v)} = readable
            /\ \A i \in DOMAIN pool.futures : pool.futures[i].state = "taken"
            /\ list_commits(records) = {} => file.v = <<>>

\* A chunk file was written over the one of an earlier ingestion, after
\* read_json gave the record of one stem and gave None for another.
C21_Witness ==
    /\ pool.pc = "written"
    /\ \E s \in DOMAIN commitFiles[pool.repo_id] : commitFiles[pool.repo_id][s] = JNull
    /\ chunkFile[pool.repo_id].present
    /\ chunkFile[pool.repo_id].v # <<>>
    /\ chunkFile[pool.repo_id].v # BuiltChunks(1)
    /\ ChunkIds(chunkFile[pool.repo_id].v) # pool.commit_stems

----------------------------------------------------------------------------
(* Properties of the text extractor                                        *)

\* C11: text extraction never raises on a commit record whose msg, author,
\* meta or its branches, stats or its insertions or deletions, or files are
\* absent or null: no task of the pool ends by raising, and build_rag_chunks
\* is not left by an exception.
C11_ExtractorNeverRaises ==
    /\ pool.pc # "raised"
    /\ \A i \in DOMAIN pool.futures : pool.futures[i].state # "raised"

\* The text is the header of the commit, a blank line, and the fallback
\* body: its four fixed lines, one line for each of the first five files,
\* and a line counting the files beyond the fifth, if any.
IsFallbackText(text, commit) ==
    LET header == _build_header(commit)
        files == FilesOf(commit)
        shown == Min(Len(files), 5)
        body == SubSeq(text, Len(header) + 2, Len(text))
    IN  /\ IsPrefix(header \o <<Lit("")>>, text)
        /\ Len(body) = 4 + shown + (IF Len(files) > 5 THEN 1 ELSE 0)
        /\ SubSeq(body, 1, 4) =
              << Lit("Summary:"),
                 Lit("- Commit details could not be fully summarized by the LLM."),
                 Lit(""), Lit("Files:") >>
        /\ \A k \in 1..shown : body[4 + k] = FileLine(files[k])
        /\ Len(files) > 5 => body[Len(body)] = [k |-> "more", n |-> Len(files) - 5]

\* C12: whichever summarise_commit calls raise or return an empty summary,
\* build_rag_chunks is not left by an exception, and the file it writes has
\* one chunk for every readable commit: header and fallback body for a
\* commit whose call failed, and for every other commit the chunk of the
\* build in which no call fails.
C12_SummarizerFailureDegrades ==
    /\ pool.pc # "raised"
    /\ pool.pc = "written" =>
          LET commits == commitFiles[pool.repo_id]
              written == chunkFile[pool.repo_id].v
              readable == {i \in DOMAIN pool.commit_stems :
                              Truthy(read_json(commits, pool.commit_stems[i]))}
              unfailed == CollectChunks(commits, [s \in DOMAIN commits |-> "summary A"])
          IN  /\ Len(written) = Cardinality(readable)
              /\ \A i \in readable :
                    \E k \in DOMAIN written :
                        /\ written[k].id = pool.commit_stems[i]
                        /\ IF pool.futures[i].llm \in {SummRaise, ""}
                           THEN IsFallbackText(written[k].text,
                                               read_json(commits, pool.commit_stems[i]))
                           ELSE \E u \in DOMAIN unfailed : unfailed[u] = written[k]

\* A file of three chunks is written although the call for the commit with
\* many files raised, the call for the second commit having returned a
\* summary.
C12_Witness ==
    /\ pool.pc = "written"
    /\ Len(pool.futures) = 3
    /\ pool.futures[3].llm = SummRaise
    /\ pool.futures[2].llm = "summary A"
    /\ Len(chunkFile[pool.repo_id].v) = 3

\* C17: _is_noise_commit returns true exactly when (a) the lowercased
\* message contains a noise keyword and insertions plus deletions is at most
\* 20, or (b) no file has an extension of the code allow-list, or (c) there
\* is no file; the typo fix in a.md with 3 insertions and 1 deletion is
\* noise, the commit "add parser" with 100 changed lines in main.py is not.
C17_NoiseExactly ==
    (call.called /\ call.fn = "_is_noise_commit") =>
        LET fields == call.commit.v
            msg == IF "msg" \in DOMAIN fields THEN fields.msg.v ELSE <<>>
            count(f) == IF "stats" \in DOMAIN fields /\ f \in DOMAIN fields.stats.v
                        THEN fields.stats.v[f].v ELSE 0
            files == IF "files" \in DOMAIN fields THEN fields.files.v ELSE <<>>
            a == /\ \E k \in DOMAIN noise_keywords : Contains(Lower(msg), noise_keywords[k])
                 /\ count("insertions") + count("deletions") <= 20
            b == \A i \in DOMAIN files : splitext_ext(_file_path(files[i])) \notin CODE_EXTS
            c == Len(files) = 0
        IN  /\ ~call.raised
            /\ call.value = (a \/ b \/ c)
            /\ call.commit = Payload(1) => call.value
            /\ call.commit = Payload(2) => ~call.value

\* A commit with a keyword in its message (in mixed case), a code file among
\* its files and 21 changed lines has been classified as not noise.
C17_Witness ==
    /\ call.called /\ call.fn = "_is_noise_commit"
    /\ Get(call.commit, "msg") = JStr(MsgFmtMixedCase)
    /\ Get(call.commit, "stats") = JDict([insertions |-> JInt(10), deletions |-> JInt(11)])
    /\ \E i \in DOMAIN FilesOf(call.commit) : _file_path(FilesOf(call.commit)[i]) = MainPy
    /\ ~call.value

----------------------------------------------------------------------------
(* Properties of the re-ranking for recency                                *)

\* C18: for a recency query with candidates, the result is the first top_k
\* candidates in descending order of 0.7 * similarity + 0.3 * recency, the
\* recency being the date key normalised between the least and the greatest
\* one of the candidates (0 when all share one date key); similarities 0.9,
\* 0.85, 0.5 with recencies 0, 1, 0.5 score 0.63, 0.895, 0.5, and the second
\* candidate comes first.
C18_RankedByCombinedScore ==
    (call.called /\ call.fn = "SemanticSearch") =>
        LET chunks == call.chunks
            nearest == call.nearest
            results == call.results
            n == Min(3 * call.top_k, Len(chunks))
            \* the date key (in days) and the similarity (in hundredths) of
            \* the k-th candidate
            day(k) == _extract_date_from_chunk_id(chunks[nearest[k]].id)
            sim(k) == SimAt(k)
            oldest == Least({day(k) : k \in 1..n})
            newest == Greatest({day(k) : k \in 1..n})
            \* 1000 * (newest - oldest) times the combined score, or 1000
            \* times it when all candidates share one date key
            score(k) == IF newest = oldest THEN 7 * sim(k)
                        ELSE 7 * sim(k) * (newest - oldest) + 300 * (day(k) - oldest)
            IsRanking(pick) ==
                /\ \A i, j \in DOMAIN pick : i # j => pick[i] # pick[j]
                /\ \A i \in DOMAIN pick :
                      /\ results[i].id = chunks[nearest[pick[i]]].id
                      /\ results[i].similarity = sim(pick[i])
                      /\ \A j \in DOMAIN pick : i < j => score(pick[i]) >= score(pick[j])
                      /\ \A k \in (1..n) \ {pick[j] : j \in DOMAIN pick} :
                            score(pick[i]) >= score(k)
        IN  /\ Len(results) = Min(call.top_k, n)
            /\ \E pick \in [DOMAIN results -> 1..n] : IsRanking(pick)
            /\ (Len(chunks) = 3 /\ call.top_k = 3 /\ nearest = <<1, 3, 2>>
                 /\ day(1) # day(2))
                  => /\ <<score(1), score(2), score(3)>> = <<1260, 1790, 1000>>
                     /\ <<results[1].id, results[2].id, results[3].id>>
                          = <<chunks[3].id, chunks[1].id, chunks[2].id>>

\* The most similar candidate is the oldest of three, the second one the
\* newest, and the second one has been returned first.
C18_Witness ==
    /\ call.called /\ call.fn = "SemanticSearch"
    /\ Len(call.chunks) = 3 /\ call.top_k = 3 /\ call.nearest = <<1, 3, 2>>
    /\ call.chunks[1].id # call.chunks[3].id
    /\ _extract_date_from_chunk_id(call.chunks[1].id) < _extract_date_from_chunk_id(call.chunks[3].id)
    /\ call.results[1].id = call.chunks[3].id

====
